---- MODULE Spec2Model ----
(***************************************************************************)
(* Model of deploy_client.py: the DeployClient class (health probe,        *)
(* directory scan, upload with retry, batch orchestration, project list)   *)
(* and main(), the command line entry point that maps the outcome of a     *)
(* run to the process exit code.                                           *)
(*                                                                         *)
(* The program is single-threaded; pc is the position of its one thread.   *)
(* The server, the file system and the user (Ctrl-C) are the environment:  *)
(* every request, every open() and every scan draws its outcome from the   *)
(* set of outcomes the code distinguishes.                                 *)
(*                                                                         *)
(* requests is taken as documented since 2.27: Response.json() raises      *)
(* requests.exceptions.JSONDecodeError, a RequestException.                *)
(***************************************************************************)
EXTENDS Integers, Sequences, FiniteSets, TLC

VARIABLES
    mode,          \* command line: "deploy" (default), "health", "list"
    max_retries,   \* DeployClient.max_retries
    dir_exists,    \* DeployClient.watch_dir exists on disk
    tree,          \* the entries below watch_dir, each with its depth, in directory order
    pc,            \* position of the program's thread
    health,        \* result of check_server_health: "none", "healthy", "unhealthy"
    probes,        \* number of GET /health requests sent
    probe_out,     \* how the last GET /health ended, "none" before it
    scans,         \* number of find_archive_files calls
    archive_files, \* deploy_all_files' local archive_files (<<>> before the scan)
    idx,           \* number of files of archive_files the for loop has taken
    attempt,       \* deploy_file's loop variable
    trace,         \* events of the current deploy_file call: attempts and sleeps
    handle_open,   \* the file object f of the with block is open
    ret,           \* deploy_file's return value: "none", "true", "false"
    results,       \* deploy_all_files' local results dict
    summary,       \* what deploy_all_files returned to main
    calls,         \* per file: number of deploy_file invocations
    attempts,      \* per file: number of loop iterations started
    posts,         \* per file: number of POST /deploy requests sent
    returns,       \* per file: the sequence of values deploy_file returned
    lists,         \* number of GET /deploy requests sent
    interrupted,   \* a KeyboardInterrupt was raised
    crashed,       \* an exception reached main's except Exception
    exit_code      \* argument of sys.exit, -1 while running

vars == << mode, max_retries, dir_exists, tree, pc, health, probes, probe_out, scans,
           archive_files, idx, attempt, trace, handle_open, ret, results,
           summary, calls, attempts, posts, returns, lists, interrupted,
           crashed, exit_code >>

(***************************************************************************)
(* Bounds of the model.                                                    *)
(***************************************************************************)
MaxRetries == 3    \* largest max_retries a client is constructed with
MaxEntries == 4    \* largest number of entries under watch_dir

(***************************************************************************)
(* File names.  A name is a sequence of tokens: "." and "~" are tokens of  *)
(* their own, every other token is a non-empty word holding neither, so    *)
(* that the character tests of the code (rfind('.'), startswith) are tests *)
(* on tokens.                                                              *)
(***************************************************************************)
Max(S) == CHOOSE x \in S : \A y \in S : y <= x

\* str.lower() on the words used in Listing
LowerWord(w) ==
    CASE w = "ZIP"  -> "zip"
      [] w = "TBZ2" -> "tbz2"
      [] w = "Tar"  -> "tar"
      [] OTHER      -> w

Lower(name) == [i \in 1..Len(name) |-> LowerWord(name[i])]

\* pathlib.PurePath.suffix: the part of the name from its last dot on, empty
\* when the name has no dot, starts with its only dot or ends with a dot
Suffix(name) ==
    LET dots == {i \in 1..Len(name) : name[i] = "."}
    IN  IF dots = {} THEN <<>>
        ELSE LET i == Max(dots)
             IN  IF 1 < i /\ i < Len(name)
                 THEN SubSeq(name, i, Len(name))
                 ELSE <<>>

StartsWith(name, tok) == Len(name) > 0 /\ name[1] = tok

\* self.supported_extensions
supported_extensions ==
    { <<".", "zip">>, <<".", "tar">>, <<".", "tar", ".", "gz">>,
      <<".", "tgz">>, <<".", "tar", ".", "bz2">>, <<".", "tbz2">> }

\* the condition of find_archive_files on the suffix of one path
SuffixSupported(name) == Lower(Suffix(name)) \in supported_extensions

\* the condition of find_archive_files on the name of one path
NotHiddenOrTemp(name) == ~StartsWith(name, ".") /\ ~StartsWith(name, "~")

\* the two nested ifs of find_archive_files for one entry of rglob
IsArchive(e) ==
    /\ e.is_file
    /\ SuffixSupported(e.name)
    /\ NotHiddenOrTemp(e.name)

\* watch_dir.rglob('*'): every entry below the root, whatever its depth
Rglob(t) == t

RECURSIVE Filter(_, _)
Filter(t, k) ==
    IF k > Len(t) THEN <<>>
    ELSE IF IsArchive(t[k]) THEN <<t[k]>> \o Filter(t, k + 1)
         ELSE Filter(t, k + 1)

\* find_archive_files on an existing directory
FindArchiveFiles(t) == Filter(Rglob(t), 1)

Entry(name, isf, depth) == [name |-> name, is_file |-> isf, depth |-> depth]

\* The entries directories are drawn from; a directory is a run of
\* consecutive entries of this listing.
Listing ==
    << Entry(<<"c", ".", "ZIP">>, TRUE, 1),
       Entry(<<"a", ".", "zip">>, TRUE, 0),
       Entry(<<"b", ".", "tar", ".", "gz">>, TRUE, 0),
       Entry(<<".", "hidden", ".", "zip">>, TRUE, 0),
       Entry(<<"notes", ".", "txt">>, TRUE, 0),
       Entry(<<"~", "tmp", ".", "zip">>, TRUE, 2),
       Entry(<<"d", ".", "tgz">>, TRUE, 2),
       Entry(<<"e", ".", "zip">>, FALSE, 0),
       Entry(<<"f", ".", "Tar">>, TRUE, 1),
       Entry(<<"g", ".", "TBZ2">>, TRUE, 0),
       Entry(<<"h", ".", "tar", ".", "bz2">>, TRUE, 1),
       Entry(<<"zip">>, TRUE, 0) >>

Trees ==
    { SubSeq(Listing, lo, hi) :
        lo \in 1..Len(Listing),
        hi \in 0..Len(Listing) }

BoundedTrees == { t \in Trees : Len(t) <= MaxEntries }

(***************************************************************************)
(* Outcomes of the environment.                                            *)
(***************************************************************************)
\* outcomes of `with open(file_path, 'rb')`
OpenOutcomes == {"opened", "open_error"}

\* outcomes of session.post + raise_for_status + json + result.get:
\*   transport  - ConnectionError / Timeout raised by session.post
\*   http_error - non-2xx status, HTTPError raised by raise_for_status
\*   bad_json   - 2xx, body is no JSON, JSONDecodeError raised by json()
\*   ok_true    - 2xx, JSON object whose success is truthy
\*   ok_false   - 2xx, JSON object whose success is false or absent
\*   unexpected - any other exception (the file cannot be read while it is
\*                streamed, the JSON body is no object)
PostOutcomes ==
    {"transport", "http_error", "bad_json", "ok_true", "ok_false", "unexpected"}

\* outcomes of GET /health + raise_for_status + json
HealthOutcomes == {"ok", "transport", "http_error", "bad_json"}

\* outcomes of GET /deploy + raise_for_status + json + the logging loop:
\*   ok, ok_empty - a list of {name, path} records, or an empty one
\*   bad_record   - 2xx, JSON, a record without name or path (KeyError), or
\*                  projects is no list (TypeError)
ListOutcomes ==
    {"ok", "ok_empty", "transport", "http_error", "bad_json", "bad_record"}

\* the outcomes that raise a requests.RequestException
RequestExceptions == {"transport", "http_error", "bad_json"}

NoSummary == [returned |-> FALSE, success |-> 0, failed |-> 0, total |-> 0]

ZeroResults == [success |-> 0, failed |-> 0, total |-> 0]

Returned(r) == [returned |-> TRUE, success |-> r.success,
                failed |-> r.failed, total |-> r.total]

AttemptEv(out) == [ev |-> "attempt", out |-> out, d |-> 0]

SleepEv(d) == [ev |-> "sleep", out |-> "-", d |-> d]

(***************************************************************************)
(* Expressions of the code.                                                *)
(***************************************************************************)
\* variant: only the connection and the status decide, the body is not parsed
HealthResult_ParseIgnored(out) ==
    IF out \in {"transport", "http_error"} THEN "unhealthy" ELSE "healthy"

\* check_server_health: True unless a RequestException was raised
HealthResult(out) == IF out \in RequestExceptions THEN "unhealthy" ELSE "healthy"

\* variant: the result of the probe is ignored
HealthGateAborts_Never(h) == FALSE

\* deploy_all_files: `if not self.check_server_health()`
HealthGateAborts(h) == h # "healthy"

\* variant: a success:true answer does not return, the loop goes on
Disposition_SuccessRetried(out) ==
    IF out \in RequestExceptions \cup {"ok_true"} THEN "retry"
    ELSE IF out = "ok_false" THEN "return_false" ELSE "fail"

\* variant: a success:false answer is retried like a transport error
Disposition_RejectionRetried(out) ==
    IF out \in RequestExceptions \cup {"ok_false"} THEN "retry"
    ELSE IF out = "ok_true" THEN "return_true" ELSE "fail"

\* variant: one except clause for every exception, all of them retried
Disposition_AllRetried(out) ==
    IF out = "ok_true" THEN "return_true"
    ELSE IF out = "ok_false" THEN "return_false" ELSE "retry"

\* deploy_file: what one attempt's outcome leads to
\*   return_true / return_false - the two returns of the with block
\*   retry                      - except requests.RequestException
\*   fail                       - except Exception
Disposition(out) ==
    CASE out = "ok_true"             -> "return_true"
      [] out = "ok_false"            -> "return_false"
      [] out \in RequestExceptions   -> "retry"
      [] OTHER                       -> "fail"

\* variant: range(self.max_retries - 1), the first try not counted as a retry
InRange_OneFewer(a, n) == a < n - 1

\* variant: the body runs once before the bound is looked at
InRange_AtLeastOnce(a, n) == a < n \/ a = 0

\* deploy_file: `for attempt in range(self.max_retries)` takes attempt a
InRange(a, n) == a < n

\* deploy_file: `if attempt < self.max_retries - 1`
RetryLeft(a, n) == a < n - 1

\* variant: a fixed backoff of one second
WaitTime_Constant(a) == 1

\* variant: the backoff starts at 2 seconds
WaitTime_FromTwo(a) == 2 ^ (a + 1)

\* deploy_file: `wait_time = 2 ** attempt`
WaitTime(a) == 2 ^ a

\* variant: the result of deploy_file is not counted
Tally_Nothing(r, ok) == r

\* variant: failed is counted for every file, success for the good ones
Tally_NoElse(r, ok) ==
    IF ok THEN [r EXCEPT !.success = @ + 1, !.failed = @ + 1]
          ELSE [r EXCEPT !.failed = @ + 1]

\* variant: the else branch does not count
Tally_FailuresDropped(r, ok) ==
    IF ok THEN [r EXCEPT !.success = @ + 1] ELSE r

\* deploy_all_files: the if/else on deploy_file's result
Tally(r, ok) ==
    IF ok THEN [r EXCEPT !.success = @ + 1]
          ELSE [r EXCEPT !.failed = @ + 1]

\* variant: the loop is left after its first file
MoreFiles_FirstOnly(i, n) == i < n /\ i < 1

\* deploy_all_files: the for loop, having taken i of n files, takes another
MoreFiles(i, n) == i < n

\* deploy_all_files: results = {"success": 0, "failed": 0, "total": len(archive_files)}
InitialResults(files) == [success |-> 0, failed |-> 0, total |-> Len(files)]

\* variant: one failed file is tolerated
DeployExitCode_MoreThanOne(r) == IF r.failed > 1 THEN 1 ELSE 0

\* variant: a run without any file counts as a failure
DeployExitCode_EmptyFails(r) == IF r.failed > 0 \/ r.total = 0 THEN 1 ELSE 0

\* main: the exit code of default mode
DeployExitCode(r) == IF r.failed > 0 THEN 1 ELSE 0

\* main: the exit code of --health
HealthExitCode(h) == IF h = "healthy" THEN 0 ELSE 1

(***************************************************************************)
(* Initial states: a client constructed by DeployClient(server, dir,       *)
(* max_retries) and a command line.                                        *)
(***************************************************************************)
Modes == {"deploy", "health", "list"}

RetryValues == (0 - 1)..MaxRetries

Init ==
    /\ mode \in Modes
    /\ max_retries \in RetryValues
    /\ dir_exists \in BOOLEAN
    /\ tree \in BoundedTrees
    /\ (~dir_exists => tree = <<>>)
    /\ pc = "main"
    /\ health = "none"
    /\ probes = 0
    /\ probe_out = "none"
    /\ scans = 0
    /\ archive_files = <<>>
    /\ idx = 0
    /\ attempt = 0
    /\ trace = <<>>
    /\ handle_open = FALSE
    /\ ret = "none"
    /\ results = ZeroResults
    /\ summary = NoSummary
    /\ calls = <<>>
    /\ attempts = <<>>
    /\ posts = <<>>
    /\ returns = <<>>
    /\ lists = 0
    /\ interrupted = FALSE
    /\ crashed = FALSE
    /\ exit_code = 0 - 1

(***************************************************************************)
(* main and the --health / --list modes.                                   *)
(***************************************************************************)
\* main: the if / elif / else on args.health and args.list; the health mode
\* and deploy_all_files both begin with check_server_health
Main ==
    /\ pc = "main"
    /\ pc' = IF mode = "list" THEN "list" ELSE "probe"
    /\ UNCHANGED << mode, max_retries, dir_exists, tree, health, probes, probe_out, scans,
                    archive_files, idx, attempt, trace, handle_open, ret,
                    results, summary, calls, attempts, posts, returns, lists,
                    interrupted, crashed, exit_code >>

\* check_server_health: one GET /health, no loop around it
CheckServerHealth ==
    /\ pc = "probe"
    /\ \E out \in HealthOutcomes :
         /\ probe_out' = out
         /\ health' = HealthResult(out)
    /\ probes' = probes + 1
    /\ pc' = IF mode = "health" THEN "health_exit" ELSE "gate"
    /\ UNCHANGED << mode, max_retries, dir_exists, tree, scans, archive_files,
                    idx, attempt, trace, handle_open, ret, results, summary,
                    calls, attempts, posts, returns, lists, interrupted,
                    crashed, exit_code >>

\* main, --health: sys.exit(0) if healthy, sys.exit(1) otherwise
HealthModeExit ==
    /\ pc = "health_exit"
    /\ exit_code' = HealthExitCode(health)
    /\ pc' = "exit"
    /\ UNCHANGED << mode, max_retries, dir_exists, tree, health, probes, probe_out, scans,
                    archive_files, idx, attempt, trace, handle_open, ret,
                    results, summary, calls, attempts, posts, returns, lists,
                    interrupted, crashed >>

\* list_deployed_projects and main's --list branch: one GET /deploy; a
\* RequestException gives [], any other exception reaches main's
\* except Exception; otherwise sys.exit(0)
ListDeployedProjects ==
    /\ pc = "list"
    /\ lists' = lists + 1
    /\ \E out \in ListOutcomes :
         IF out = "bad_record"
         THEN crashed' = TRUE /\ exit_code' = 1
         ELSE crashed' = crashed /\ exit_code' = 0
    /\ pc' = "exit"
    /\ UNCHANGED << mode, max_retries, dir_exists, tree, health, probes, probe_out, scans,
                    archive_files, idx, attempt, trace, handle_open, ret,
                    results, summary, calls, attempts, posts, returns,
                    interrupted >>

(***************************************************************************)
(* deploy_all_files.                                                       *)
(***************************************************************************)
\* `if not self.check_server_health(): return {0, 0, 0}`
HealthGate ==
    /\ pc = "gate"
    /\ IF HealthGateAborts(health)
       THEN summary' = Returned(ZeroResults) /\ pc' = "report"
       ELSE summary' = summary /\ pc' = "scan"
    /\ UNCHANGED << mode, max_retries, dir_exists, tree, health, probes, probe_out, scans,
                    archive_files, idx, attempt, trace, handle_open, ret,
                    results, calls, attempts, posts, returns, lists,
                    interrupted, crashed, exit_code >>

\* find_archive_files, `if not archive_files: return {0, 0, 0}`, and the
\* initialisation of results
Scan ==
    /\ pc = "scan"
    /\ scans' = scans + 1
    /\ archive_files' = IF dir_exists THEN FindArchiveFiles(tree) ELSE <<>>
    /\ IF archive_files' = <<>>
       THEN /\ summary' = Returned(ZeroResults)
            /\ pc' = "report"
            /\ UNCHANGED << results, calls, attempts, posts, returns >>
       ELSE /\ results' = InitialResults(archive_files')
            /\ calls' = [i \in 1..Len(archive_files') |-> 0]
            /\ attempts' = [i \in 1..Len(archive_files') |-> 0]
            /\ posts' = [i \in 1..Len(archive_files') |-> 0]
            /\ returns' = [i \in 1..Len(archive_files') |-> <<>>]
            /\ pc' = "next"
            /\ UNCHANGED summary
    /\ UNCHANGED << mode, max_retries, dir_exists, tree, health, probes, probe_out, idx,
                    attempt, trace, handle_open, ret, lists, interrupted,
                    crashed, exit_code >>

\* find_archive_files raises: Path.is_file() re-raises an OSError that is not
\* "no such file" (an entry of a directory without search permission); the
\* exception passes through deploy_all_files to main's except Exception
ScanRaises ==
    /\ pc = "scan"
    /\ dir_exists
    /\ tree # <<>>
    /\ scans' = scans + 1
    /\ crashed' = TRUE
    /\ exit_code' = 1
    /\ pc' = "exit"
    /\ UNCHANGED << mode, max_retries, dir_exists, tree, health, probes, probe_out,
                    archive_files, idx, attempt, trace, handle_open, ret,
                    results, summary, calls, attempts, posts, returns, lists,
                    interrupted >>

\* head of `for i, file_path in enumerate(archive_files, 1)`: call
\* deploy_file on the next file, or log and return results
NextFile ==
    /\ pc = "next"
    /\ IF MoreFiles(idx, Len(archive_files))
       THEN /\ idx' = idx + 1
            /\ calls' = [calls EXCEPT ![idx + 1] = @ + 1]
            /\ attempt' = 0
            /\ trace' = <<>>
            /\ ret' = "none"
            /\ pc' = "for"
            /\ UNCHANGED summary
       ELSE /\ summary' = Returned(results)
            /\ pc' = "report"
            /\ UNCHANGED << idx, calls, attempt, trace, ret >>
    /\ UNCHANGED << mode, max_retries, dir_exists, tree, health, probes, probe_out, scans,
                    archive_files, handle_open, results, attempts, posts,
                    returns, lists, interrupted, crashed, exit_code >>

\* the if/else on deploy_file's result
TallyResult ==
    /\ pc = "tally"
    /\ results' = Tally(results, ret = "true")
    /\ pc' = "next"
    /\ UNCHANGED << mode, max_retries, dir_exists, tree, health, probes, probe_out, scans,
                    archive_files, idx, attempt, trace, handle_open, ret,
                    summary, calls, attempts, posts, returns, lists,
                    interrupted, crashed, exit_code >>

\* main, default mode: sys.exit(1) if results['failed'] > 0 else sys.exit(0)
Report ==
    /\ pc = "report"
    /\ exit_code' = DeployExitCode(summary)
    /\ pc' = "exit"
    /\ UNCHANGED << mode, max_retries, dir_exists, tree, health, probes, probe_out, scans,
                    archive_files, idx, attempt, trace, handle_open, ret,
                    results, summary, calls, attempts, posts, returns, lists,
                    interrupted, crashed >>

(***************************************************************************)
(* deploy_file.                                                            *)
(***************************************************************************)
\* deploy_file returns v to deploy_all_files
Return(v) ==
    /\ ret' = v
    /\ returns' = [returns EXCEPT ![idx] = Append(@, v = "true")]
    /\ pc' = "tally"

\* variant: the file is opened without a with block and closed only before
\* the return statements
EndAttempt_Leak(out) ==
    /\ handle_open' = (handle_open /\ Disposition(out) = "retry"
                                   /\ RetryLeft(attempt, max_retries))
    /\ CASE Disposition(out) = "return_true" ->
              /\ trace' = Append(trace, AttemptEv(out))
              /\ Return("true")
         [] Disposition(out) = "retry" /\ RetryLeft(attempt, max_retries) ->
              /\ trace' = trace \o << AttemptEv(out), SleepEv(WaitTime(attempt)) >>
              /\ pc' = "sleep"
              /\ UNCHANGED << ret, returns >>
         [] OTHER ->
              /\ trace' = Append(trace, AttemptEv(out))
              /\ Return("false")

\* the end of one attempt with outcome out: the with block is left (the file
\* object is closed), then the returns and the except clauses
EndAttempt(out) ==
    /\ handle_open' = FALSE
    /\ CASE Disposition(out) = "return_true" ->
              /\ trace' = Append(trace, AttemptEv(out))
              /\ Return("true")
         [] Disposition(out) = "retry" /\ RetryLeft(attempt, max_retries) ->
              /\ trace' = trace \o << AttemptEv(out), SleepEv(WaitTime(attempt)) >>
              /\ pc' = "sleep"
              /\ UNCHANGED << ret, returns >>
         [] OTHER ->
              /\ trace' = Append(trace, AttemptEv(out))
              /\ Return("false")

\* head of `for attempt in range(self.max_retries)`; the `return False`
\* after the loop when the range is exhausted
ForAttempt ==
    /\ pc = "for"
    /\ IF InRange(attempt, max_retries)
       THEN /\ attempts' = [attempts EXCEPT ![idx] = @ + 1]
            /\ pc' = "open"
            /\ UNCHANGED << ret, returns >>
       ELSE /\ Return("false")
            /\ UNCHANGED attempts
    /\ UNCHANGED << mode, max_retries, dir_exists, tree, health, probes, probe_out, scans,
                    archive_files, idx, attempt, trace, handle_open, results,
                    summary, calls, posts, lists, interrupted, crashed,
                    exit_code >>

\* `with open(file_path, 'rb') as f`
OpenFile ==
    /\ pc = "open"
    /\ \E o \in OpenOutcomes :
         IF o = "opened"
         THEN /\ handle_open' = TRUE
              /\ pc' = "post"
              /\ UNCHANGED << trace, ret, returns >>
         ELSE EndAttempt(o)
    /\ UNCHANGED << mode, max_retries, dir_exists, tree, health, probes, probe_out, scans,
                    archive_files, idx, attempt, results, summary, calls,
                    attempts, posts, lists, interrupted, crashed, exit_code >>

\* session.post, raise_for_status, json, the if on result.get('success')
\* and the except clauses
PostFile ==
    /\ pc = "post"
    /\ posts' = [posts EXCEPT ![idx] = @ + 1]
    /\ \E out \in PostOutcomes : EndAttempt(out)
    /\ UNCHANGED << mode, max_retries, dir_exists, tree, health, probes, probe_out, scans,
                    archive_files, idx, attempt, results, summary, calls,
                    attempts, lists, interrupted, crashed, exit_code >>

\* time.sleep(wait_time) returns; the loop takes the next attempt
Sleep ==
    /\ pc = "sleep"
    /\ attempt' = attempt + 1
    /\ pc' = "for"
    /\ UNCHANGED << mode, max_retries, dir_exists, tree, health, probes, probe_out, scans,
                    archive_files, idx, trace, handle_open, ret, results,
                    summary, calls, attempts, posts, returns, lists,
                    interrupted, crashed, exit_code >>

(***************************************************************************)
(* KeyboardInterrupt: raised in a blocking call, caught by no except       *)
(* Exception clause (it is a BaseException), it leaves the with block and  *)
(* reaches main's `except KeyboardInterrupt: sys.exit(1)`.                 *)
(***************************************************************************)
InterruptPoints == {"probe", "scan", "open", "post", "sleep", "list"}

\* variant: deploy_file catches everything (a bare except), so an interrupt
\* raised in an attempt or a sleep only fails the current file
Interrupt_Swallowed ==
    /\ pc \in InterruptPoints
    /\ interrupted' = TRUE
    /\ handle_open' = FALSE
    /\ IF pc \in {"open", "post", "sleep"}
       THEN Return("false") /\ UNCHANGED exit_code
       ELSE exit_code' = 1 /\ pc' = "exit" /\ UNCHANGED << ret, returns >>
    /\ UNCHANGED << mode, max_retries, dir_exists, tree, health, probes,
                    probe_out, scans, archive_files, idx, attempt, trace,
                    results, summary, calls, attempts, posts, lists, crashed >>

Interrupt ==
    /\ pc \in InterruptPoints
    /\ interrupted' = TRUE
    /\ handle_open' = FALSE
    /\ exit_code' = 1
    /\ pc' = "exit"
    /\ UNCHANGED << mode, max_retries, dir_exists, tree, health, probes, probe_out, scans,
                    archive_files, idx, attempt, trace, ret, results, summary,
                    calls, attempts, posts, returns, lists, crashed >>

Next ==
    \/ Main
    \/ CheckServerHealth
    \/ HealthModeExit
    \/ ListDeployedProjects
    \/ HealthGate
    \/ Scan
    \/ ScanRaises
    \/ NextFile
    \/ ForAttempt
    \/ OpenFile
    \/ PostFile
    \/ Sleep
    \/ TallyResult
    \/ Report
    \/ Interrupt

Spec == Init /\ [][Next]_vars

(***************************************************************************)
(* Properties.                                                             *)
(***************************************************************************)
\* deploy_all_files returned its summary to main after a healthy probe
HealthyRunReturned ==
    mode = "deploy" /\ health = "healthy" /\ summary.returned

Files == 1..Len(archive_files)

\* positions of the attempts in the current call's trace
AttemptsAt == {k \in 1..Len(trace) : trace[k].ev = "attempt"}

SleepsAt == {k \in 1..Len(trace) : trace[k].ev = "sleep"}

\* the current deploy_file call has returned to deploy_all_files
CallReturned == ret # "none"

InCall == pc \in {"for", "open", "post", "sleep"}

\* the attempts of the trace that sent their POST
PostedAt == {k \in AttemptsAt : trace[k].out # "open_error"}

\* what the spec calls a transport-level error: connection refused, timeout,
\* DNS failure, non-2xx answer
TransportLevel == {"transport", "http_error"}

\* the unexpected local errors: open() fails, any other exception
LocalErrors == {"open_error", "unexpected"}

\* C1: in every run of deploy_all_files that passed the health probe and
\* returned, deploy_file was called exactly once per file of the scan, each
\* call returned exactly one result, total is the number of files of the scan,
\* success and failed count the True and the False results and add up to total.
C1_OneResultPerFile ==
    HealthyRunReturned =>
        /\ \A i \in Files : calls[i] = 1 /\ Len(returns[i]) = 1
        /\ summary.total = Len(archive_files)
        /\ summary.success = Cardinality({i \in Files : returns[i] = <<TRUE>>})
        /\ summary.failed = Cardinality({i \in Files : returns[i] = <<FALSE>>})
        /\ summary.success + summary.failed = summary.total

C1_Witness ==
    /\ HealthyRunReturned
    /\ summary.total >= 2
    /\ summary.success >= 1
    /\ summary.failed >= 1

\* C2: a deploy_file call with max_retries = N >= 1 whose attempts all ended
\* in a transport-level error has, once it returned, made exactly N attempts
\* (N POSTs) and N - 1 sleeps, attempt and sleep alternating from the first
\* attempt to the last, the k-th sleep lasting 2^(k-1) seconds, and returned
\* False; with N = 3 the sleeps are 1 s then 2 s.
C2_ExhaustedRetries ==
    ( /\ CallReturned
      /\ max_retries >= 1
      /\ \A k \in AttemptsAt : trace[k].out \in TransportLevel ) =>
        /\ ret = "false"
        /\ Len(trace) = 2 * max_retries - 1
        /\ \A k \in 1..Len(trace) :
             IF k % 2 = 1
             THEN trace[k].ev = "attempt"
             ELSE trace[k].ev = "sleep" /\ trace[k].d = 2 ^ ((k \div 2) - 1)
        /\ attempts[idx] = max_retries
        /\ posts[idx] = max_retries
        /\ (max_retries = 3 => trace[2].d = 1 /\ trace[4].d = 2)

C2_Witness ==
    /\ CallReturned
    /\ max_retries = 3
    /\ Len(trace) = 5
    /\ \A k \in AttemptsAt : trace[k].out \in TransportLevel

\* C3: an attempt answered with 2xx and success = true is the last event of its
\* call: deploy_file has returned True, no attempt and no sleep follows it and
\* the file's POST count stays at the POSTs sent so far; answered so on the
\* first attempt, the call consists of that one attempt and no sleep.
C3_SuccessStops ==
    \A k \in AttemptsAt :
        trace[k].out = "ok_true" =>
            /\ k = Len(trace)
            /\ ret = "true"
            /\ ~InCall
            /\ posts[idx] = Cardinality(PostedAt)
            /\ returns[idx] = <<TRUE>>
            /\ (k = 1 => SleepsAt = {} /\ posts[idx] = 1 /\ attempts[idx] = 1)

C3_Witness ==
    /\ Len(trace) = 1
    /\ trace[1].out = "ok_true"
    /\ RetryLeft(attempt, max_retries)
    /\ pc = "exit"

\* C4: an attempt answered with 2xx and success = false is the last event of
\* its call: deploy_file has returned False, with no sleep and no attempt
\* after it whatever the number of attempts left; on the first attempt the
\* call made exactly one attempt.
C4_RejectionStops ==
    \A k \in AttemptsAt :
        trace[k].out = "ok_false" =>
            /\ k = Len(trace)
            /\ ret = "false"
            /\ ~InCall
            /\ posts[idx] = Cardinality(PostedAt)
            /\ returns[idx] = <<FALSE>>
            /\ (k = 1 => SleepsAt = {} /\ posts[idx] = 1 /\ attempts[idx] = 1)

C4_Witness ==
    /\ Len(trace) = 1
    /\ trace[1].out = "ok_false"
    /\ RetryLeft(attempt, max_retries)
    /\ pc = "exit"

\* C5: an attempt that failed with an unexpected local error (open() failed,
\* or any exception that is no RequestException) is the last event of its
\* call: deploy_file has returned False without sleeping or retrying, whatever
\* the number of attempts left.
C5_LocalErrorStops ==
    \A k \in AttemptsAt :
        trace[k].out \in LocalErrors =>
            /\ k = Len(trace)
            /\ ret = "false"
            /\ ~InCall
            /\ posts[idx] = Cardinality(PostedAt)
            /\ attempts[idx] = Cardinality(AttemptsAt)
            /\ returns[idx] = <<FALSE>>

C5_Witness ==
    /\ Len(trace) = 3
    /\ trace[3].out = "open_error"
    /\ RetryLeft(attempt, max_retries)
    /\ pc = "exit"

\* C6: in a deploy run whose health probe reported unhealthy, the scan is
\* never performed, no deploy_file call, attempt or POST is made, and what
\* deploy_all_files returns is {total: 0, success: 0, failed: 0}.
C6_UnhealthyAborts ==
    (mode = "deploy" /\ health = "unhealthy") =>
        /\ scans = 0
        /\ archive_files = <<>>
        /\ calls = <<>> /\ attempts = <<>> /\ posts = <<>>
        /\ trace = <<>>
        /\ ~InCall /\ pc # "scan"
        /\ (pc \in {"report", "exit"} => summary = Returned(ZeroResults))

C6_Witness ==
    /\ mode = "deploy"
    /\ health = "unhealthy"
    /\ dir_exists /\ FindArchiveFiles(tree) # <<>>
    /\ pc = "exit"
    /\ summary = Returned(ZeroResults)

\* C7: in default mode the exit code is 0 only when no file failed and the
\* run was not aborted: a run aborted by a failed health check or by a user
\* interruption never ends with exit code 0.
C7_AbortedRunExitsNonZero ==
    (mode = "deploy" /\ pc = "exit" /\ exit_code = 0) =>
        /\ summary.failed = 0
        /\ health # "unhealthy"
        /\ ~interrupted

\* C8: in default mode, a run that was not interrupted and in which
\* deploy_all_files returned exits with 1 if and only if some file's
\* deploy_file call returned False, which is when the summary's failed is
\* positive, and with 0 otherwise.
C8_ExitCodeIffFailure ==
    (mode = "deploy" /\ pc = "exit" /\ summary.returned /\ ~interrupted) =>
        /\ exit_code \in {0, 1}
        /\ exit_code = 1 <=> summary.failed > 0
        /\ exit_code = 1 <=> \E i \in Files : returns[i] = <<FALSE>>

C8_Witness ==
    /\ mode = "deploy"
    /\ pc = "exit"
    /\ summary.returned
    /\ exit_code = 1
    /\ summary.failed = 1
    /\ summary.success >= 1

\* the name ends with the extension ext, compared case-insensitively
EndsWith(name, ext) ==
    /\ Len(name) >= Len(ext)
    /\ SubSeq(Lower(name), Len(name) - Len(ext) + 1, Len(name)) = ext

\* the files the scanner is specified to return: regular files with one of
\* the six extensions, not named .x or ~x, at any depth
SpecifiedArchive(e) ==
    /\ e.is_file
    /\ \E ext \in supported_extensions : EndsWith(e.name, ext)
    /\ ~StartsWith(e.name, ".") /\ ~StartsWith(e.name, "~")

\* a.zip, b.tar.gz, .hidden.zip, notes.txt
EndToEndTree == SubSeq(Listing, 2, 5)

\* C9: find_archive_files returns exactly the regular files with one of the
\* six extensions (case-insensitive) whose name starts with neither '.' nor
\* '~', at any depth; and a root of a.zip, b.tar.gz, .hidden.zip, notes.txt
\* with a healthy server that accepts every upload ends with the summary
\* {total: 2, success: 2, failed: 0} and exit code 0.
C9_ScannerExact ==
    /\ (scans > 0 /\ ~crashed /\ ~interrupted /\ dir_exists) =>
           /\ \A k \in 1..Len(tree) :
                SpecifiedArchive(tree[k]) <=>
                    \E i \in Files : archive_files[i] = tree[k]
           /\ Len(archive_files) =
                Cardinality({k \in 1..Len(tree) : SpecifiedArchive(tree[k])})
    /\ ( /\ mode = "deploy" /\ dir_exists /\ tree = EndToEndTree
         /\ health = "healthy"
         /\ pc = "exit" /\ ~interrupted /\ ~crashed
         /\ \A i \in Files : returns[i] = <<TRUE>> ) =>
           /\ summary = Returned([success |-> 2, failed |-> 0, total |-> 2])
           /\ exit_code = 0

\* C10 as stated: in a run that passed the health check and was not
\* interrupted, every file of the scan received at least one upload attempt.
C10_EveryFileAttempted ==
    HealthyRunReturned => \A i \in Files : attempts[i] >= 1

\* C10, amended: for max_retries >= 1, in a run that passed the health check
\* and was not interrupted, every file of the scan received at least one
\* upload attempt, whatever deploy_file returned for the files before it.
C10_EveryFileAttemptedPositiveRetries ==
    (HealthyRunReturned /\ max_retries >= 1) =>
        \A i \in Files : attempts[i] >= 1 /\ Len(returns[i]) = 1

C10_Witness ==
    /\ HealthyRunReturned
    /\ max_retries >= 1
    /\ Len(archive_files) >= 2
    /\ returns[1] = <<FALSE>>
    /\ attempts[2] >= 1

\* C11: the project lister is never fatal: whatever GET /deploy answers
\* (transport error, non-2xx, unparseable body, malformed projects field or
\* record), list_deployed_projects returns without raising and --list mode
\* exits with code 0.
C11_ListNeverFatal ==
    (mode = "list" /\ pc = "exit" /\ ~interrupted) =>
        /\ ~crashed
        /\ exit_code = 0

\* the run was ended by a KeyboardInterrupt: the process has exited with a
\* non-zero code and deploy_all_files returned no summary
InterruptedRunAborted ==
    (mode = "deploy" /\ interrupted) =>
        /\ pc = "exit"
        /\ exit_code # 0
        /\ ~summary.returned
        /\ ~handle_open

\* from the interrupt on, no attempt starts, no POST is sent, no sleep
\* begins and no file is taken
NothingAfterInterrupt ==
    (mode = "deploy" /\ interrupted') =>
        /\ attempts' = attempts
        /\ posts' = posts
        /\ trace' = trace
        /\ calls' = calls
        /\ idx' = idx

\* C12: a user interruption at any point of a default-mode run (health probe,
\* scan, open or POST, backoff sleep) aborts the run: from then on no upload
\* attempt is started for the current or a later file, no summary is
\* returned, and the process exits with a non-zero code.
C12_InterruptAborts ==
    /\ [](InterruptedRunAborted)
    /\ [][NothingAfterInterrupt]_vars

C12_Witness ==
    /\ mode = "deploy"
    /\ interrupted
    /\ pc = "exit"
    /\ idx = 1
    /\ Len(archive_files) >= 2
    /\ Len(trace) = 2
    /\ trace[2].ev = "sleep"

\* the scan has come back to deploy_all_files
ScanReturned ==
    mode = "deploy" /\ scans > 0 /\ pc # "scan" /\ ~crashed /\ ~interrupted

\* C13: when the root directory does not exist or the scan finds no archive
\* file, find_archive_files returns an empty sequence, deploy_all_files
\* returns {total: 0, success: 0, failed: 0} without any deploy_file call or
\* POST, and the process exits with code 0.
C13_NothingToDeploy ==
    (ScanReturned /\ (~dir_exists \/ FindArchiveFiles(tree) = <<>>)) =>
        /\ archive_files = <<>>
        /\ calls = <<>> /\ attempts = <<>> /\ posts = <<>> /\ trace = <<>>
        /\ pc \in {"report", "exit"}
        /\ summary = Returned(ZeroResults)
        /\ (pc = "exit" => exit_code = 0)

C13_Witness ==
    /\ ScanReturned
    /\ ~dir_exists
    /\ pc = "exit"
    /\ exit_code = 0

\* the files whose deploy_file call has begun and has not returned
AttemptingFiles == {i \in Files : calls[i] > 0 /\ returns[i] = <<>>}

\* a file has been taken only after every file before it in the scan's order
\* returned and was counted; at most one file, the current one, is attempting
OneFileAtATime ==
    /\ \A j \in Files :
         /\ attempts[j] > 0 => calls[j] > 0
         /\ calls[j] > 0 =>
              /\ j <= idx
              /\ \A i \in 1..(j - 1) : calls[i] = 1 /\ Len(returns[i]) = 1
              /\ results.success + results.failed >= j - 1
    /\ Cardinality(AttemptingFiles) <= 1
    /\ AttemptingFiles \subseteq {idx}
    /\ InCall => AttemptingFiles = {idx}

\* attempts, POSTs and sleeps are those of the current file, which has not
\* returned, while no later file has been taken
OnlyCurrentFileActs ==
    /\ \A i \in Files :
         (attempts'[i] # attempts[i] \/ posts'[i] # posts[i]) =>
             /\ i = idx
             /\ returns[i] = <<>>
             /\ \A j \in Files : j > i => calls[j] = 0
    /\ (trace' # trace /\ trace' # <<>>) => (InCall /\ returns[idx] = <<>>)

\* C14: uploads are sequential and in scan order: every attempt and sleep of
\* a file, and the counting of its result, come before the first attempt of
\* any file after it in the scan, and never are two files attempting.
C14_Sequential ==
    /\ [](OneFileAtATime)
    /\ [][OnlyCurrentFileActs]_vars

C14_Witness ==
    /\ idx = 2
    /\ pc = "sleep"
    /\ attempts[1] >= 2
    /\ Len(returns[1]) = 1
    /\ results.success + results.failed = 1

\* number of True / False results deploy_file returned so far
TrueReturns == Cardinality({i \in Files : returns[i] = <<TRUE>>})

FalseReturns == Cardinality({i \in Files : returns[i] = <<FALSE>>})

\* the current call ended with success:true after transient errors only
SucceededAfterTransient ==
    /\ CallReturned
    /\ trace # <<>>
    /\ trace[Len(trace)].out = "ok_true"
    /\ \A k \in AttemptsAt \ {Len(trace)} : trace[k].out \in TransportLevel

\* C15: a call whose first k attempts (0 <= k < max_retries) ended in a
\* timeout, connection failure or HTTP error and whose attempt k+1 was
\* answered success:true has returned True after exactly k+1 attempts and k
\* sleeps of 2^0 .. 2^(k-1) seconds, and the file is counted under success.
C15_TransientRetried ==
    SucceededAfterTransient =>
        LET k == Cardinality(AttemptsAt) - 1
        IN  /\ 0 <= k /\ k < max_retries
            /\ ret = "true"
            /\ returns[idx] = <<TRUE>>
            /\ Len(trace) = 2 * k + 1
            /\ \A j \in 1..Len(trace) :
                 IF j % 2 = 1
                 THEN trace[j].ev = "attempt"
                 ELSE trace[j].ev = "sleep" /\ trace[j].d = 2 ^ ((j \div 2) - 1)
            /\ attempts[idx] = k + 1
            /\ posts[idx] = k + 1
            /\ (pc # "tally" =>
                  /\ results.success = TrueReturns
                  /\ results.failed = FalseReturns)

C15_Witness ==
    /\ SucceededAfterTransient
    /\ Len(trace) = 5
    /\ pc = "next"
    /\ results.success = 1

(***************************************************************************)
(* The program's single thread always takes its next step: every request   *)
(* returns or raises, every sleep ends.  Behaviours are checked for the    *)
(* directories of at most MaxFairEntries entries.                          *)
(***************************************************************************)
MaxFairEntries == 2    \* largest number of entries under watch_dir here

FairInit == Init /\ Len(tree) <= MaxFairEntries

FairSpec == FairInit /\ [][Next]_vars /\ WF_vars(Next)

RECURSIVE SumTo(_, _)
SumTo(f, n) == IF n = 0 THEN 0 ELSE f[n] + SumTo(f, n - 1)

\* POST /deploy requests sent in the run
TotalPosts == SumTo(posts, Len(posts))

\* a call that has returned made between 1 and max_retries attempts, each
\* with at most one POST, and returned True or False
AttemptsBounded ==
    max_retries >= 1 =>
        /\ \A i \in Files :
             /\ attempts[i] <= max_retries
             /\ posts[i] <= attempts[i]
             /\ Len(returns[i]) <= 1
             /\ Len(returns[i]) = 1 => attempts[i] >= 1
        /\ (CallReturned /\ ~interrupted) =>
             /\ ret \in {"true", "false"}
             /\ Len(returns[idx]) = 1
        /\ TotalPosts <= Len(archive_files) * max_retries

\* C16: for max_retries >= 1, with every request returning or raising, every
\* deploy_file call ends (it returns True or False, or the process exits)
\* after at least 1 and at most max_retries attempts, each attempt sending at
\* most one POST, and a run over n files ends after at most n * max_retries
\* POSTs.
C16_Terminates ==
    /\ [](AttemptsBounded)
    /\ (InCall /\ max_retries >= 1) ~> ~InCall
    /\ (mode = "deploy" /\ max_retries >= 1) ~> (pc = "exit")

C16_Witness ==
    /\ mode = "deploy"
    /\ pc = "exit"
    /\ summary.returned
    /\ max_retries >= 2
    /\ Len(archive_files) >= 2
    /\ TotalPosts = Len(archive_files) * max_retries

\* the file object is open only between a successful open() and the end of
\* that attempt's with block: not while sleeping, not at the head of the
\* next attempt, not once deploy_file has returned or the process has exited
HandleScoped ==
    /\ handle_open => (pc = "post" /\ ~CallReturned)
    /\ pc \in {"for", "open", "sleep", "tally", "next", "report", "exit"} =>
         ~handle_open

\* every POST is sent on a file object opened for that attempt, while no
\* other is open; the object is closed by the step that ends the attempt
HandlePerAttempt ==
    /\ (\E i \in Files : posts'[i] # posts[i]) =>
         (pc = "post" /\ handle_open /\ ~handle_open')
    /\ (handle_open' /\ ~handle_open) => (pc = "open" /\ pc' = "post")
    /\ (pc = "post" /\ pc' # "post") => (handle_open /\ ~handle_open')

\* C17: the file handle is scoped to one attempt: every attempt opens the
\* file anew, at most one handle is open, and it is released before a backoff
\* sleep begins, before the next attempt, and before deploy_file returns, on
\* every exit path.
C17_HandlePerAttempt ==
    /\ [](HandleScoped)
    /\ [][HandlePerAttempt]_vars

C17_Witness ==
    /\ pc = "sleep"
    /\ ~handle_open
    /\ posts[idx] = 2
    /\ attempts[idx] = 2

\* one GET /health per run, answered Unhealthy on a network error, a non-2xx
\* status or an unparseable body; nothing of a deploy run precedes it; the
\* --health mode does nothing else and exits 0 if healthy, 1 otherwise
ProbedOnce ==
    /\ probes <= 1
    /\ (probes = 1) <=> (probe_out # "none")
    /\ (probes = 1) <=> (health # "none")
    /\ probe_out \in {"transport", "http_error", "bad_json"} => health = "unhealthy"
    /\ probe_out = "ok" => health = "healthy"
    /\ mode = "deploy" =>
         /\ (scans > 0 \/ pc = "scan" \/ calls # <<>>) =>
                (probes = 1 /\ health = "healthy")
         /\ (pc \in {"report", "exit"} /\ ~interrupted) => probes = 1
    /\ mode = "health" =>
         /\ scans = 0 /\ lists = 0 /\ calls = <<>> /\ posts = <<>> /\ trace = <<>>
         /\ (pc = "exit" /\ ~interrupted) =>
                /\ probes = 1
                /\ exit_code = IF health = "healthy" THEN 0 ELSE 1

\* C18: the health probe is issued once per call and never retried:
\* check_server_health sends one GET /health and returns Unhealthy on a
\* network error, non-2xx status or parse failure without sleeping or
\* re-sending; deploy_all_files probes exactly once, before the scan and any
\* upload; --health mode only probes and exits 0 if healthy, 1 otherwise.
C18_SingleProbe == ProbedOnce

C18_Witness ==
    /\ mode = "health"
    /\ pc = "exit"
    /\ probe_out = "bad_json"
    /\ probes = 1
    /\ exit_code = 1

\* number of files whose deploy_file call has returned
NumReturned == Cardinality({i \in Files : Len(returns[i]) = 1})

\* in the loop the counters add up to the files returned and counted (the
\* file whose result is about to be added is not counted yet)
CountersMatch ==
    (mode = "deploy" /\ archive_files # <<>>) =>
        /\ results.total = Len(archive_files)
        /\ results.success + results.failed =
              NumReturned - (IF pc = "tally" THEN 1 ELSE 0)
        /\ results.success + results.failed <= results.total
        /\ NumReturned <= results.total

\* the counters change only when a returned file is counted: exactly one of
\* success and failed grows by exactly 1, total stays
CountersStep ==
    /\ results'.success >= results.success
    /\ results'.failed >= results.failed
    /\ scans > 0 => results'.total = results.total
    /\ (scans > 0 /\ results' # results) =>
         /\ pc = "tally"
         /\ \/ /\ ret = "true"
               /\ results'.success = results.success + 1
               /\ results'.failed = results.failed
            \/ /\ ret = "false"
               /\ results'.success = results.success
               /\ results'.failed = results.failed + 1

\* C19: throughout the upload loop success + failed is the number of files
\* whose deploy_file call has returned (and been counted) and is at most
\* total; total is fixed once the scan returned, success and failed never
\* decrease, and each completed file adds exactly 1 to exactly one of them.
C19_Counters ==
    /\ [](CountersMatch)
    /\ [][CountersStep]_vars

C19_Witness ==
    /\ pc = "next"
    /\ idx = 2
    /\ Len(archive_files) = 3
    /\ results.success = 1
    /\ results.failed = 1

\* C20: a client constructed with max_retries <= 0 makes no attempt, no POST
\* and no sleep: deploy_file returns False from the line after its loop and
\* every file of the scan is counted as failed.
C20_NoAttemptWithoutRetries ==
    max_retries <= 0 =>
        /\ \A i \in Files : attempts[i] = 0 /\ posts[i] = 0
        /\ trace = <<>>
        /\ pc \notin {"open", "post", "sleep"}
        /\ ~handle_open
        /\ CallReturned => ret = "false"
        /\ \A i \in Files : returns[i] \in {<<>>, <<FALSE>>}
        /\ HealthyRunReturned =>
             /\ summary.success = 0
             /\ summary.failed = Len(archive_files)
             /\ summary.total = Len(archive_files)

C20_Witness ==
    /\ max_retries <= 0
    /\ HealthyRunReturned
    /\ pc = "exit"
    /\ summary.failed >= 2
    /\ exit_code = 1

====
